---- MODULE Spec2Model ----
(***************************************************************************)
(* A model of the qubit-space algebra of pulsee/Quantum_Computing.py and   *)
(* of the Magnus-expansion terms of pulsee/operators.py.                   *)
(*                                                                         *)
(* Numbers.  Array entries are Gaussian integers <<re, im>>  (re + i*im);  *)
(* a real (float64) array holds plain integers.  A matrix is a sequence of *)
(* rows.  A Magnus term is kept exactly as  pi^pi / den * m  in a record   *)
(* [pi, den, m] with m a Gaussian-integer matrix.                          *)
(*                                                                         *)
(* Three specifications share the variables:                               *)
(*   SpecBasis   CompositeQubitSpace.basis_from_indices / onb_matrices     *)
(*   SpecQubit   NGate, QubitState, density_matrix, apply                  *)
(*   SpecMagnus  commutator and the three Magnus terms                     *)
(***************************************************************************)
EXTENDS Integers, Sequences, FiniteSets, TLC

VARIABLES
    n,          \* CompositeQubitSpace._n of the space in use
    indices,    \* the caller's list object handed to basis_from_indices
    passed,     \* the contents of that list when the last call was made
    gate,       \* the NGate built last (or NoObject)
    state,      \* the QubitState built last (or NoObject)
    h,          \* the time-sampled Hamiltonian h[0..N-1]
    time_step,  \* the spacing of the samples
    op,         \* the operation called last
    ret         \* what it returned or raised: [kind, val]

vars == <<n, indices, passed, gate, state, h, time_step, op, ret>>

\* ------------------------------------------------------------------ bounds
MaxN == 3          \* number of tensor factors of a space, SpecBasis
MaxLen == 4        \* length of a caller's index list
MaxBelow == 1      \* how far below 0 an entry of a caller's list goes
MaxEntry == 2      \* largest entry of a caller's index list
MaxQubits == 2     \* number of tensor factors of a space, SpecQubit
MaxSamples == 4    \* number N of samples of the Hamiltonian
MaxDt == 2         \* largest time_step

\* ----------------------------------------------------------------- helpers
NoObject == [kind |-> "none"]
NoReturn == [kind |-> "none", val |-> <<>>]

Pow2(k) == 2 ^ k

Raise(error) == [kind |-> error, val |-> <<>>]
Return(v) == [kind |-> "ok", val |-> v]

\* list.reverse()
reverse(l) == [j \in 1..Len(l) |-> l[Len(l) + 1 - j]]

\* np.zeros(len) with entry i (0-based) set to 1
unit_vector(len, i) == [p \in 1..len |-> IF p = i + 1 THEN 1 ELSE 0]

\* -------------------------------------------------- CompositeQubitSpace
\* the loop of basis_from_indices over indices[1:], from position pos
\* (1-based) of the reversed list, with the running k and i
RECURSIVE index_loop(_, _, _, _)
index_loop(rev, pos, k, i) ==
    IF pos > Len(rev) THEN i
    ELSE index_loop(rev, pos + 1, k + 1, i + rev[pos] * Pow2(k))

\* basis_from_indices with the list reversed before it is validated
basis_from_indices_reverse_first(self_n, ind) ==
    LET rev == reverse(ind)
    IN  IF ~(\A j \in 1..Len(rev) : 0 <= rev[j] /\ rev[j] <= 1)
        THEN [out |-> Raise("MatrixRepresentationError"), indices |-> rev]
        ELSE IF ~(Len(rev) = self_n)
        THEN [out |-> Raise("MatrixRepresentationError"), indices |-> rev]
        ELSE [out |-> Return(unit_vector(Pow2(self_n),
                                         index_loop(rev, 2, 1, rev[1]))),
              indices |-> rev]

\* basis_from_indices with k started at 0 instead of 1
basis_from_indices_k_from_0(self_n, ind) ==
    IF ~(\A j \in 1..Len(ind) : 0 <= ind[j] /\ ind[j] <= 1)
    THEN [out |-> Raise("MatrixRepresentationError"), indices |-> ind]
    ELSE IF ~(Len(ind) = self_n)
    THEN [out |-> Raise("MatrixRepresentationError"), indices |-> ind]
    ELSE LET rev == reverse(ind)
             i == index_loop(rev, 2, 0, rev[1])
         IN  [out |-> Return(unit_vector(Pow2(self_n), i)), indices |-> rev]

\* basis_from_indices(self, indices): the outcome and the list afterwards
basis_from_indices(self_n, ind) ==
    IF ~(\A j \in 1..Len(ind) : 0 <= ind[j] /\ ind[j] <= 1)
    THEN [out |-> Raise("MatrixRepresentationError"), indices |-> ind]
    ELSE IF ~(Len(ind) = self_n)
    THEN [out |-> Raise("MatrixRepresentationError"), indices |-> ind]
    ELSE LET rev == reverse(ind)
             i == index_loop(rev, 2, 1, rev[1])
         IN  [out |-> Return(unit_vector(Pow2(self_n), i)), indices |-> rev]

\* add_bit with the 1-branch taken before the 0-branch
RECURSIVE add_bit_1_first(_, _, _, _)
add_bit_1_first(self_n, bit, vec, matrices) ==
    LET new_vec == Append(vec, bit)
    IN  IF Len(new_vec) = self_n
        THEN Append(matrices, basis_from_indices(self_n, new_vec).out.val)
        ELSE add_bit_1_first(self_n, 0, new_vec,
                             add_bit_1_first(self_n, 1, new_vec, matrices))

\* add_bit(bit, vec) of onb_matrices; matrices is the enclosing list
RECURSIVE add_bit(_, _, _, _)
add_bit(self_n, bit, vec, matrices) ==
    LET new_vec == Append(vec, bit)
    IN  IF Len(new_vec) = self_n
        THEN Append(matrices, basis_from_indices(self_n, new_vec).out.val)
        ELSE add_bit(self_n, 1, new_vec, add_bit(self_n, 0, new_vec, matrices))

onb_matrices(self_n) ==
    add_bit(self_n, 1, <<>>, add_bit(self_n, 0, <<>>, <<>>))

\* ------------------------------------------------------------- SpecBasis
\* the lists of integers a caller may hand over
Lists == UNION {[1..len -> (0 - MaxBelow)..MaxEntry] : len \in 0..MaxLen}

InitBasis ==
    /\ n \in 1..MaxN
    /\ indices \in Lists
    /\ passed = indices
    /\ gate = NoObject
    /\ state = NoObject
    /\ h = <<>>
    /\ time_step = 0
    /\ op = "init"
    /\ ret = NoReturn

\* the caller calls space.basis_from_indices(indices) on its list
CallBasisFromIndices ==
    LET r == basis_from_indices(n, indices)
    IN  /\ op' = "basis_from_indices"
        /\ passed' = indices
        /\ indices' = r.indices
        /\ ret' = r.out
        /\ UNCHANGED <<n, gate, state, h, time_step>>

\* the caller calls space.onb_matrices()
CallOnbMatrices ==
    /\ op' = "onb_matrices"
    /\ ret' = Return(onb_matrices(n))
    /\ UNCHANGED <<n, indices, passed, gate, state, h, time_step>>

NextBasis == CallBasisFromIndices \/ CallOnbMatrices

SpecBasis == InitBasis /\ [][NextBasis]_vars

\* ------------------------------------------------------ complex arrays
cadd(a, b) == <<a[1] + b[1], a[2] + b[2]>>
cmul(a, b) == <<a[1] * b[1] - a[2] * b[2], a[1] * b[2] + a[2] * b[1]>>
conjugate(a) == <<a[1], -a[2]>>
real(k) == <<k, 0>>

RECURSIVE csum(_, _)
csum(f, len) == IF len = 0 THEN <<0, 0>> ELSE cadd(csum(f, len - 1), f[len])

\* np.shape of a 2-D array
shape(x) == <<Len(x), Len(x[1])>>

\* np.dot of two 1-D arrays
dot(a, b) == csum([k \in 1..Len(a) |-> cmul(a[k], b[k])], Len(a))

\* np.matmul of two 2-D arrays
matmul(a, b) ==
    [r \in 1..Len(a) |-> [c \in 1..Len(b[1]) |->
        csum([k \in 1..Len(b) |-> cmul(a[r][k], b[k][c])], Len(b))]]

\* np.matmul of a 2-D array and a 1-D array
matvec(a, v) == [r \in 1..Len(a) |-> dot(a[r], v)]

\* np.identity(k)
identity(k) == [r \in 1..k |-> [c \in 1..k |-> IF r = c THEN real(1) ELSE real(0)]]

\* np.array_equal: same shape and same entries
array_equal(a, b) ==
    /\ shape(a) = shape(b)
    /\ \A r \in 1..Len(a) : \A c \in 1..Len(a[1]) : a[r][c] = b[r][c]

\* adjoint(a): the conjugate transpose
adjoint(a) == [c \in 1..Len(a[1]) |-> [r \in 1..Len(a) |-> conjugate(a[r][c])]]

\* a complex value stored into an element of a float64 array keeps its
\* real part only
float64_cast(z) == z[1]

\* ------------------------------------------------------- NGate, QubitState
\* NGate.__init__(x, qs): what the constructor returns or raises
NGate_init(x, qs_n) ==
    IF ~(shape(x) = <<Pow2(qs_n), Pow2(qs_n)>>)
    THEN Raise("MatrixRepresentationError")
    ELSE IF array_equal(matmul(adjoint(x), x), identity(qs_n))
    THEN Raise("MatrixRepresentationError")
    ELSE Return([kind |-> "NGate", n |-> qs_n, matrix |-> x])

\* QubitState.__init__(qs, matrix)
QubitState_init(qs_n, matrix) ==
    IF ~(Len(matrix) = Pow2(qs_n))
    THEN Raise("MatrixRepresentationError")
    ELSE Return([kind |-> "QubitState", qs |-> qs_n, matrix |-> matrix])

\* the attributes and properties an instance of QubitState has
QubitState_attributes == {"_matrix", "_qs", "matrix", "density_matrix"}

\* NGate.apply(state)
NGate_apply(self, st) ==
    IF "n" \notin QubitState_attributes
    THEN Raise("AttributeError")
    ELSE IF ~(self.n = st.qs)
    THEN Raise("AssertionError")
    ELSE Return(matvec(self.matrix, st.matrix))

\* QubitState.density_matrix: the float64 array filled by the two loops,
\* which Density_Matrix(...) then wraps
density_matrix(self) ==
    LET onb == [k \in 1..Pow2(self.qs) |->
                   [p \in 1..Pow2(self.qs) |-> real(onb_matrices(self.qs)[k][p])]]
    IN  [i \in 1..Len(onb) |-> [j \in 1..Len(onb) |->
            float64_cast(cmul(
                dot([p \in 1..Len(onb[i]) |-> conjugate(onb[i][p])], self.matrix),
                dot([p \in 1..Len(self.matrix) |-> conjugate(self.matrix[p])],
                    onb[j])))]]

\* ------------------------------------------------------------- SpecQubit
Scalars == {<<0, 0>>, <<1, 0>>, <<0, 1>>, <<2, 0>>}
Patterns == {"identity", "flip", "cnot"}

\* a d x d input array: a scalar times a 0/1 pattern
InputArray(pattern, c, d) ==
    [r \in 1..d |-> [k \in 1..d |->
        LET one == CASE pattern = "identity" -> r = k
                     [] pattern = "flip" -> r + k = d + 1
                     [] pattern = "cnot" ->
                            IF r < d - 1 THEN r = k
                            ELSE k >= d - 1 /\ r # k
        IN  IF one THEN c ELSE real(0)]]

Sizes == {1} \cup {Pow2(k) : k \in 1..MaxQubits}
InputArrays == {InputArray(p, c, d) : p \in Patterns, c \in Scalars, d \in Sizes}

\* amplitudes 0, 1 and i, in units of a common real normalisation factor
Amplitudes == {<<0, 0>>, <<1, 0>>, <<0, 1>>}
MaxNonzero == 2    \* nonzero amplitudes of an input state vector
InputVectors ==
    UNION {{v \in [1..d -> Amplitudes] :
               Cardinality({p \in 1..d : v[p] # <<0, 0>>}) <= MaxNonzero} :
           d \in Sizes}

InitQubit ==
    /\ n \in 1..MaxQubits
    /\ indices = <<>>
    /\ passed = <<>>
    /\ gate = NoObject
    /\ state = NoObject
    /\ h = <<>>
    /\ time_step = 0
    /\ op = "init"
    /\ ret = NoReturn

\* the caller builds its gate, NGate(x, qs), on the space in use
NewNGate ==
    /\ gate = NoObject
    /\ \E x \in InputArrays :
        LET r == NGate_init(x, n)
        IN  /\ op' = "NGate"
            /\ passed' = x
            /\ ret' = r
            /\ gate' = IF r.kind = "ok" THEN r.val ELSE gate
            /\ UNCHANGED <<n, indices, state, h, time_step>>

\* the caller builds its state, QubitState(qs, matrix), on a space of its
\* choice
NewQubitState ==
    /\ state = NoObject
    /\ \E qs_n \in 1..MaxQubits, matrix \in InputVectors :
        LET r == QubitState_init(qs_n, matrix)
        IN  /\ op' = "QubitState"
            /\ passed' = matrix
            /\ ret' = r
            /\ state' = IF r.kind = "ok" THEN r.val ELSE state
            /\ UNCHANGED <<n, indices, gate, h, time_step>>

\* the caller calls gate.apply(state)
CallApply ==
    /\ gate.kind = "NGate"
    /\ state.kind = "QubitState"
    /\ op' = "apply"
    /\ passed' = state
    /\ ret' = NGate_apply(gate, state)
    /\ UNCHANGED <<n, indices, gate, state, h, time_step>>

\* the caller reads state.density_matrix
CallDensityMatrix ==
    /\ state.kind = "QubitState"
    /\ op' = "density_matrix"
    /\ passed' = state
    /\ ret' = Return(density_matrix(state))
    /\ UNCHANGED <<n, indices, gate, state, h, time_step>>

NextQubit == NewNGate \/ NewQubitState \/ CallApply \/ CallDensityMatrix

SpecQubit == InitQubit /\ [][NextQubit]_vars

\* ------------------------------------------------------------ operators
\* 2 x 2 sample operators: the Pauli matrices and a nilpotent one
Samples ==
    { <<<<real(0), real(1)>>, <<real(1), real(0)>>>>,
      <<<<real(0), <<0, -1>>>>, <<<<0, 1>>, real(0)>>>>,
      <<<<real(1), real(0)>>, <<real(0), real(-1)>>>>,
      <<<<real(0), real(1)>>, <<real(0), real(0)>>>> }

\* the dimension of the sample operators
Dim == Len(CHOOSE A \in Samples : TRUE)

\* Qobj arithmetic: A + B, A - B, scalar * A, A * B
madd(A, B) == [r \in 1..Dim |-> [c \in 1..Dim |-> cadd(A[r][c], B[r][c])]]
mscale(z, A) == [r \in 1..Dim |-> [c \in 1..Dim |-> cmul(z, A[r][c])]]
msub(A, B) == [r \in 1..Dim |-> [c \in 1..Dim |->
                  cadd(A[r][c], cmul(real(-1), B[r][c]))]]
mmul(A, B) ==
    [r \in 1..Dim |-> [c \in 1..Dim |->
        csum([k \in 1..Dim |-> cmul(A[r][k], B[k][c])], Dim)]]

\* A * B + B * A in the place of the commutator
anticommutator(A, B) == madd(mmul(A, B), mmul(B, A))

\* commutator(A, B)
commutator(A, B) == msub(mmul(A, B), mmul(B, A))

\* h[t] for a 0-based t
at(samples, t) == samples[t + 1]

\* for t in range(stop): integral = integral + 2 * h[t + 1], from t on
RECURSIVE loop_1st(_, _, _, _)
loop_1st(samples, t, stop, integral) ==
    IF t >= stop THEN integral
    ELSE loop_1st(samples, t + 1, stop,
                  madd(integral, mscale(real(2), at(samples, t + 1))))

\* the 1st term with the loop run over range(len(h) - 1)
magnus_expansion_1st_term_long_loop(samples, dt) ==
    IF Len(samples) = 0 THEN Raise("IndexError")
    ELSE LET integral == loop_1st(samples, 0, Len(samples) - 1, at(samples, 0))
             total == mscale(real(dt), madd(integral, samples[Len(samples)]))
         IN  Return([pi |-> 1, den |-> 2, m |-> mscale(<<0, -2>>, total)])

\* magnus_expansion_1st_term(h, time_step):
\*   -1j * 2 * pi * ((integral + h[-1]) * time_step / 2)
magnus_expansion_1st_term(samples, dt) ==
    IF Len(samples) = 0 THEN Raise("IndexError")
    ELSE LET integral == loop_1st(samples, 0, Len(samples) - 2, at(samples, 0))
             total == mscale(real(dt), madd(integral, samples[Len(samples)]))
         IN  Return([pi |-> 1, den |-> 2, m |-> mscale(<<0, -2>>, total)])

\* for t2 in range(t1 + 1), from t2 on
RECURSIVE loop_2nd_t2(_, _, _, _, _)
loop_2nd_t2(samples, dt, t1, t2, integral) ==
    IF t2 >= t1 + 1 THEN integral
    ELSE loop_2nd_t2(samples, dt, t1, t2 + 1,
             madd(integral, mscale(real(dt * dt),
                      commutator(at(samples, t1), at(samples, t2)))))

\* for t1 in range(stop), from t1 on
RECURSIVE loop_2nd_t1(_, _, _, _, _)
loop_2nd_t1(samples, dt, t1, stop, integral) ==
    IF t1 >= stop THEN integral
    ELSE loop_2nd_t1(samples, dt, t1 + 1, stop,
                     loop_2nd_t2(samples, dt, t1, 0, integral))

\* the 2nd term with t1 run over range(len(h))
magnus_expansion_2nd_term_long_loop(samples, dt) ==
    IF Len(samples) = 0 THEN Raise("IndexError")
    ELSE LET integral == loop_2nd_t1(samples, dt, 0, Len(samples),
                                     mscale(real(0), at(samples, 0)))
         IN  Return([pi |-> 2, den |-> 2, m |-> mscale(real(-4), integral)])

\* magnus_expansion_2nd_term(h, time_step):
\*   ((2 * pi) ** 2) * (-(1 / 2) * integral)
magnus_expansion_2nd_term(samples, dt) ==
    IF Len(samples) = 0 THEN Raise("IndexError")
    ELSE LET integral == loop_2nd_t1(samples, dt, 0, Len(samples) - 1,
                                     mscale(real(0), at(samples, 0)))
         IN  Return([pi |-> 2, den |-> 2, m |-> mscale(real(-4), integral)])

\* for t3 in range(t2 + 1), from t3 on
RECURSIVE loop_3rd_t3(_, _, _, _, _, _)
loop_3rd_t3(samples, dt, t1, t2, t3, integral) ==
    IF t3 >= t2 + 1 THEN integral
    ELSE loop_3rd_t3(samples, dt, t1, t2, t3 + 1,
             madd(integral, mscale(real(dt * dt * dt),
                 madd(commutator(at(samples, t1),
                          commutator(at(samples, t2), at(samples, t3))),
                      commutator(at(samples, t3),
                          commutator(at(samples, t2), at(samples, t1)))))))

\* for t2 in range(t1 + 1), from t2 on
RECURSIVE loop_3rd_t2(_, _, _, _, _)
loop_3rd_t2(samples, dt, t1, t2, integral) ==
    IF t2 >= t1 + 1 THEN integral
    ELSE loop_3rd_t2(samples, dt, t1, t2 + 1,
                     loop_3rd_t3(samples, dt, t1, t2, 0, integral))

\* for t1 in range(len(h) - 1), from t1 on
RECURSIVE loop_3rd_t1(_, _, _, _)
loop_3rd_t1(samples, dt, t1, integral) ==
    IF t1 >= Len(samples) - 1 THEN integral
    ELSE loop_3rd_t1(samples, dt, t1 + 1,
                     loop_3rd_t2(samples, dt, t1, 0, integral))

\* magnus_expansion_3rd_term(h, time_step):
\*   (1j / 6) * ((2 * pi) ** 3) * integral
magnus_expansion_3rd_term(samples, dt) ==
    IF Len(samples) = 0 THEN Raise("IndexError")
    ELSE LET integral == loop_3rd_t1(samples, dt, 0,
                                     mscale(real(0), at(samples, 0)))
         IN  Return([pi |-> 3, den |-> 6, m |-> mscale(<<0, 8>>, integral)])

\* ------------------------------------------------------------ SpecMagnus
InitMagnus ==
    /\ n = 1
    /\ indices = <<>>
    /\ passed = <<>>
    /\ gate = NoObject
    /\ state = NoObject
    /\ h \in UNION {[1..len -> Samples] : len \in 0..MaxSamples}
    /\ time_step \in 1..MaxDt
    /\ op = "init"
    /\ ret = NoReturn

CallMagnus1st ==
    /\ op' = "magnus_expansion_1st_term"
    /\ ret' = magnus_expansion_1st_term(h, time_step)
    /\ UNCHANGED <<n, indices, passed, gate, state, h, time_step>>

CallMagnus2nd ==
    /\ op' = "magnus_expansion_2nd_term"
    /\ ret' = magnus_expansion_2nd_term(h, time_step)
    /\ UNCHANGED <<n, indices, passed, gate, state, h, time_step>>

CallMagnus3rd ==
    /\ op' = "magnus_expansion_3rd_term"
    /\ ret' = magnus_expansion_3rd_term(h, time_step)
    /\ UNCHANGED <<n, indices, passed, gate, state, h, time_step>>

NextMagnus == CallMagnus1st \/ CallMagnus2nd \/ CallMagnus3rd

SpecMagnus == InitMagnus /\ [][NextMagnus]_vars

\* ------------------------------------------------- properties, SpecBasis
BitSeqs(len) == [1..len -> {0, 1}]

\* the bits read as a binary number, first bit most significant
RECURSIVE BinaryValue(_)
BinaryValue(b) ==
    IF Len(b) = 0 THEN 0
    ELSE 2 * BinaryValue(SubSeq(b, 1, Len(b) - 1)) + b[Len(b)]

IsUnitVector(v, len, i) ==
    /\ DOMAIN v = 1..len
    /\ \A p \in 1..len : v[p] = IF p = i + 1 THEN 1 ELSE 0

\* C3: onb_matrices() returns exactly 2^n vectors of length 2^n, the k-th
\* one (k = 0..2^n-1) with a single 1 at position k and 0 elsewhere, which
\* is the order of the index computed by basis_from_indices.
C3_OnbIsStandardBasis ==
    op = "onb_matrices" =>
        /\ ret.kind = "ok"
        /\ Len(ret.val) = Pow2(n)
        /\ \A k \in 0..(Pow2(n) - 1) : IsUnitVector(ret.val[k + 1], Pow2(n), k)
        /\ \A b \in BitSeqs(n) :
               basis_from_indices(n, b).out.val = ret.val[BinaryValue(b) + 1]

C3_Witness ==
    /\ op = "onb_matrices"
    /\ n = 3
    /\ Len(ret.val) = 8
    /\ ret.val[6] = <<0, 0, 0, 0, 0, 1, 0, 0>>

\* C4: for a bit sequence b of length n, basis_from_indices(b) returns the
\* length-2^n vector whose only nonzero entry is a 1 at index
\* sum_j b[j]*2^(n-1-j), and every index 0..2^n-1 comes from exactly one b.
C4_IndexIsBinaryValue ==
    (op = "basis_from_indices" /\ passed \in BitSeqs(n)) =>
        /\ ret.kind = "ok"
        /\ IsUnitVector(ret.val, Pow2(n), BinaryValue(passed))
        /\ \A idx \in 0..(Pow2(n) - 1) :
               Cardinality({b \in BitSeqs(n) :
                   basis_from_indices(n, b).out.val[idx + 1] = 1}) = 1

C4_Witness ==
    /\ op = "basis_from_indices"
    /\ n = 3
    /\ passed = <<1, 1, 0>>
    /\ ret.kind = "ok"
    /\ ret.val[7] = 1

C10_SuccessLeavesListUnchanged ==
    (op = "basis_from_indices" /\ ret.kind = "ok") => indices = passed

\* ------------------------------------------------- properties, SpecQubit
\* C1: NGate(x, qs) with x of shape (2^n, 2^n) whose adjoint times x is
\* not the identity raises MatrixRepresentationError and builds no gate.
C1_NonUnitaryRejected ==
    (/\ op = "NGate"
     /\ shape(passed) = <<Pow2(n), Pow2(n)>>
     /\ matmul(adjoint(passed), passed) # identity(Pow2(n))) =>
        ret.kind = "MatrixRepresentationError"

\* C2: gate.apply(state) on a state of a space with the gate's n returns
\* the product gate.matrix * state.matrix; with a different n it fails.
C2_ApplyIsMatrixProduct ==
    op = "apply" =>
        IF gate.n = state.qs
        THEN ret.kind = "ok" /\ ret.val = matvec(gate.matrix, state.matrix)
        ELSE ret.kind # "ok"

\* C5: density_matrix has entry [i][j] equal to psi_i * conj(psi_j), the
\* projector on psi, with no component of an entry lost.
C5_DensityIsProjector ==
    op = "density_matrix" =>
        /\ ret.kind = "ok"
        /\ \A i \in 1..Len(state.matrix) : \A j \in 1..Len(state.matrix) :
               real(ret.val[i][j]) =
                   cmul(state.matrix[i], conjugate(state.matrix[j]))

\* ------------------------------------------------ properties, SpecMagnus
ZeroOperator == [r \in 1..Dim |-> [c \in 1..Dim |-> real(0)]]

\* the sum of f[x] over the x of a finite set S
RECURSIVE SumOver(_, _)
SumOver(f, S) ==
    IF S = {} THEN ZeroOperator
    ELSE LET x == CHOOSE y \in S : TRUE
         IN  madd(f[x], SumOver(f, S \ {x}))

\* C6: for N >= 2 the 1st term is -i*2*pi*(dt/2)*(h[0] + 2*sum of the
\* interior samples h[1..N-2] + h[N-1]); for N = 2, -i*2*pi*(H0+H1)*dt/2.
C6_FirstTermIsTrapezoid ==
    (op = "magnus_expansion_1st_term" /\ Len(h) >= 2) =>
        /\ ret.kind = "ok"
        /\ ret.val.pi = 1
        /\ ret.val.den = 2
        /\ ret.val.m =
               mscale(<<0, -2 * time_step>>,
                   madd(madd(h[1], h[Len(h)]),
                        mscale(real(2), SumOver(h, 2..(Len(h) - 1)))))

C6_Witness ==
    /\ op = "magnus_expansion_1st_term"
    /\ Len(h) = 4
    /\ h[2] # h[3]
    /\ h[1] # h[4]
    /\ time_step = 2
    /\ ret.kind = "ok"

\* C7: when every sample is the same operator the 2nd and the 3rd term are
\* the zero operator, for every N >= 1 and time_step; commutator(A, A) is
\* the zero matrix for every A.
C7_ConstantSamplesGiveZero ==
    (/\ op \in {"magnus_expansion_2nd_term", "magnus_expansion_3rd_term"}
     /\ Len(h) >= 1
     /\ \A k \in 1..Len(h) : h[k] = h[1]) =>
        /\ ret.kind = "ok"
        /\ ret.val.m = ZeroOperator
        /\ commutator(h[1], h[1]) = ZeroOperator

C7_Witness ==
    /\ op = "magnus_expansion_3rd_term"
    /\ Len(h) = 3
    /\ \A k \in 1..Len(h) : h[k] = h[1]
    /\ mmul(h[1], h[1]) # ZeroOperator
    /\ ret.val.m = ZeroOperator

\* the index pairs (t1, t2), 0-based, with 0 <= t2 <= t1 <= N-2
Pairs(N) == {q \in (0..(N - 2)) \X (0..(N - 2)) : q[2] <= q[1]}

\* C9: the 2nd term is -(1/2)*(2*pi)^2*dt^2 times the sum of
\* commutator(h[t1], h[t2]) over the N*(N-1)/2 pairs 0 <= t2 <= t1 <= N-2,
\* each once; h[N-1] never enters, and for N = 1 the result is zero.
C9_SecondTermPairSum ==
    (op = "magnus_expansion_2nd_term" /\ Len(h) >= 1) =>
        /\ ret.kind = "ok"
        /\ ret.val.pi = 2
        /\ ret.val.den = 2
        /\ ret.val.m =
               mscale(real(-4 * time_step * time_step),
                   SumOver([q \in Pairs(Len(h)) |->
                                commutator(at(h, q[1]), at(h, q[2]))],
                            Pairs(Len(h))))
        /\ 2 * Cardinality(Pairs(Len(h))) = Len(h) * (Len(h) - 1)
        /\ \A A \in Samples :
               magnus_expansion_2nd_term([h EXCEPT ![Len(h)] = A], time_step) = ret
        /\ Len(h) = 1 => ret.val.m = ZeroOperator

C9_Witness ==
    /\ op = "magnus_expansion_2nd_term"
    /\ Len(h) = 4
    /\ commutator(h[4], h[1]) # ZeroOperator
    /\ commutator(h[3], h[2]) # ZeroOperator
    /\ ret.val.m # ZeroOperator

====
